---- MODULE Spec2Model ----
(***************************************************************************)
(* The intent router of broadway_copilot (routeIntent): the priority       *)
(* cascade button payload -> pending tonality -> pending image -> LLM,     *)
(* the cooldown arithmetic and the missing-profile-field post-processing.  *)
(*                                                                         *)
(* Representation.  A JavaScript value that may be undefined/null and is   *)
(* not drawn from a closed vocabulary (ButtonPayload, Body, a timestamp)   *)
(* is a sequence of length 0 (absent) or 1 (present).  A message body is a *)
(* sequence of one-character strings, so that toLowerCase() and trim() are *)
(* computed character by character.  Nullable fields over closed           *)
(* vocabularies (pending, intent, missingProfileField, selectedTonality,   *)
(* the profile's gender and age group) use NULL.                           *)
(***************************************************************************)
EXTENDS Integers, Sequences, FiniteSets, TLC

\* pc       where the turn stands: "idle" (no call yet), "returned", "threw"
\* session  the session fields the caller holds between turns
\* state    the GraphState routeIntent was called with (Absent while idle)
\* env      what the collaborators did in this call: Date.now(), loadPrompt
\*          and the classifier (Absent when the call consulted none of them)
\* out      the outcome of the call (Absent while idle)
VARIABLES pc, session, state, env, out

vars == <<pc, session, state, env, out>>

NULL == "null"

Absent == << >>

Some(x) == <<x>>

\* ------------------------------------------------------------------ bounds

MaxImages == 1

MaxNowMinutes == 31

MaxLastMinutes == 1

\* ------------------------------------------------------- program constants

MsPerSecond == 1000

SecondsPerMinute == 60

CooldownMinutes == 30

NeverUsed == -1

LLMOutputIntents == {"general", "vibe_check", "color_analysis", "styling"}

LLMOutputMissingFields == {"gender", "age_group", NULL}

LLMOutputSchema == [intent : LLMOutputIntents, missingProfileField : LLMOutputMissingFields]

validTonalities == <<"friendly", "savage", "hype_bff">>

stylingRelated == <<"styling", "occasion", "vacation", "pairing">>

otherValid == <<"general", "vibe_check", "color_analysis", "suggest">>

validTonalitiesButton == <<"friendly", "savage", "hype_bff">>

TONALITY_SELECTION == "TONALITY_SELECTION"

VIBE_CHECK_IMAGE == "VIBE_CHECK_IMAGE"

COLOR_ANALYSIS_IMAGE == "COLOR_ANALYSIS_IMAGE"

InvalidTonalityReply ==
  [reply_type |-> "text",
   reply_text |-> <<"Invalid tonality selection. Please choose one of: ",
                    "Friendly", ", ", "Savage", ", ", "Hype BFF">>]

\* ------------------------------------------------------ JavaScript helpers

\* Array.prototype.includes
Includes(arr, x) == \E i \in 1..Len(arr) : arr[i] = x

\* truthiness of an optional string: undefined and '' are falsy
TruthyString(opt) == opt # Absent /\ opt[1] # ""

\* truthiness of a nullable number: null and 0 are falsy
TruthyNumber(opt) == opt # Absent /\ opt[1] # 0

UpperCase == <<"A","B","C","D","E","F","G","H","I","J","K","L","M",
               "N","O","P","Q","R","S","T","U","V","W","X","Y","Z">>

LowerCase == <<"a","b","c","d","e","f","g","h","i","j","k","l","m",
               "n","o","p","q","r","s","t","u","v","w","x","y","z">>

WhiteSpace == {" ", "\t", "\n", "\r"}

LowerChar(c) ==
  IF \E i \in 1..Len(UpperCase) : UpperCase[i] = c
  THEN LowerCase[CHOOSE i \in 1..Len(UpperCase) : UpperCase[i] = c]
  ELSE c

\* String.prototype.toLowerCase
toLowerCase(s) == [i \in 1..Len(s) |-> LowerChar(s[i])]

RECURSIVE trimStart(_)
trimStart(s) ==
  IF s # << >> /\ Head(s) \in WhiteSpace THEN trimStart(Tail(s)) ELSE s

RECURSIVE trimEnd(_)
trimEnd(s) ==
  IF s # << >> /\ s[Len(s)] \in WhiteSpace
  THEN trimEnd(SubSeq(s, 1, Len(s) - 1))
  ELSE s

\* mutant of trim: only the leading whitespace is removed
trim_StartOnly(s) == trimStart(s)

\* String.prototype.trim
trim(s) == trimEnd(trimStart(s))

\* The characters of the tonality tokens, to compare a body with a token.
Spell(token) ==
  CASE token = "friendly" -> <<"f","r","i","e","n","d","l","y">>
    [] token = "savage"   -> <<"s","a","v","a","g","e">>
    [] token = "hype_bff" -> <<"h","y","p","e","_","b","f","f">>

\* validTonalities.includes(userMessage), userMessage a character sequence
IncludesText(arr, chars) == \E i \in 1..Len(arr) : Spell(arr[i]) = chars

\* the element of arr that chars spells (chars as the string it is)
AsToken(arr, chars) == arr[CHOOSE i \in 1..Len(arr) : Spell(arr[i]) = chars]

\* numImagesInMessage(conversationHistoryWithImages): the images attached to
\* the latest message; the history is modelled by that message's image list.
numImagesInMessage(history) == Len(history)

\* Math.floor(a / b) for b > 0
FloorDiv(a, b) == a \div b

\* ------------------------------------------------------------ routeIntent

\* A GraphState as routeIntent reads and returns it (the conversation text
\* history and the trace buffer are only handed on to the classifier).
GraphStateOf(sess, user, input, history) ==
  [user |-> user,
   input |-> input,
   conversationHistoryWithImages |-> history,
   pending |-> sess.pending,
   intent |-> sess.intent,
   missingProfileField |-> sess.missingProfileField,
   selectedTonality |-> sess.selectedTonality,
   assistantReply |-> sess.assistantReply]

\* What one call of routeIntent gives: the returned state (tag "return") or
\* the error thrown (tag "throw"), with the branch that decided, the two
\* eligibility flags substituted into the prompt, and the number of calls
\* made to loadPrompt and to the classifier.
Outcome(tag, value, branch, flags, promptLoads, classifierCalls) ==
  [tag |-> tag,
   value |-> value,
   error |-> IF tag = "throw" THEN "InternalServerError" ELSE NULL,
   branch |-> branch,
   flags |-> flags,
   promptLoads |-> promptLoads,
   classifierCalls |-> classifierCalls]

Returned(s, branch) == Outcome("return", Some(s), branch, Absent, 0, 0)

\* mutant of ButtonIntent: only 'styling' itself maps to styling, the other
\* styling-family payloads are taken verbatim like the direct intents
ButtonIntent_Verbatim(buttonPayload) ==
  IF buttonPayload = "styling" THEN "styling"
  ELSE IF Includes(otherValid, buttonPayload) \/ Includes(stylingRelated, buttonPayload)
  THEN buttonPayload
  ELSE "general"

\* mutant of ButtonIntent: a payload of no vocabulary is taken as the intent
ButtonIntent_UnknownVerbatim(buttonPayload) ==
  IF Includes(stylingRelated, buttonPayload) THEN "styling"
  ELSE buttonPayload

\* Priority 1: the intent a non-tonality button payload selects
ButtonIntent(buttonPayload) ==
  IF Includes(stylingRelated, buttonPayload) THEN "styling"
  ELSE IF Includes(otherValid, buttonPayload) THEN buttonPayload
  ELSE "general"

\* Priority 1: the button payload takes the tonality short-circuit
IsTonalityButton(buttonPayload) ==
  /\ ~ Includes(stylingRelated, buttonPayload)
  /\ ~ Includes(otherValid, buttonPayload)
  /\ Includes(validTonalitiesButton, buttonPayload)

\* mutant of ButtonRoute: the tonality short-circuit leaves pending as it was
ButtonRoute_KeepPending(s, buttonPayload) ==
  IF IsTonalityButton(buttonPayload)
  THEN [s EXCEPT !.intent = "vibe_check",
                 !.selectedTonality = buttonPayload,
                 !.missingProfileField = NULL]
  ELSE [s EXCEPT !.intent = ButtonIntent(buttonPayload),
                 !.missingProfileField = NULL]

\* mutant of ButtonRoute: every button press ends the pending expectation
ButtonRoute_ClearsPending(s, buttonPayload) ==
  IF IsTonalityButton(buttonPayload)
  THEN [s EXCEPT !.intent = "vibe_check",
                 !.selectedTonality = buttonPayload,
                 !.pending = NULL,
                 !.missingProfileField = NULL]
  ELSE [s EXCEPT !.intent = ButtonIntent(buttonPayload),
                 !.pending = NULL,
                 !.missingProfileField = NULL]

\* mutant of ButtonRoute: a premium-feature button is honoured only when the
\* feature was never used, and routed to general otherwise
ButtonRoute_CooldownGate(s, buttonPayload) ==
  IF IsTonalityButton(buttonPayload)
  THEN [s EXCEPT !.intent = "vibe_check",
                 !.selectedTonality = buttonPayload,
                 !.pending = NULL,
                 !.missingProfileField = NULL]
  ELSE [s EXCEPT !.intent =
                    IF \/ buttonPayload = "vibe_check" /\ s.user.lastVibeCheckAt # Absent
                       \/ buttonPayload = "color_analysis" /\ s.user.lastColorAnalysisAt # Absent
                    THEN "general"
                    ELSE ButtonIntent(buttonPayload),
                 !.missingProfileField = NULL]

\* Priority 1: the state returned for a truthy button payload
ButtonRoute(s, buttonPayload) ==
  IF IsTonalityButton(buttonPayload)
  THEN [s EXCEPT !.intent = "vibe_check",
                 !.selectedTonality = buttonPayload,
                 !.pending = NULL,
                 !.missingProfileField = NULL]
  ELSE [s EXCEPT !.intent = ButtonIntent(buttonPayload),
                 !.missingProfileField = NULL]

\* input.Body?.toLowerCase().trim() ?? ''
UserMessage(input) ==
  IF input.Body = Absent THEN << >> ELSE trim(toLowerCase(input.Body[1]))

\* mutant of TonalityRoute: the corrective reply is appended to the replies
\* the state already carries instead of replacing them
TonalityRoute_AppendReply(s, userMessage) ==
  IF IncludesText(validTonalities, userMessage)
  THEN [s EXCEPT !.selectedTonality = AsToken(validTonalities, userMessage),
                 !.pending = VIBE_CHECK_IMAGE,
                 !.intent = "vibe_check",
                 !.missingProfileField = NULL]
  ELSE [s EXCEPT !.assistantReply = Append(s.assistantReply, InvalidTonalityReply),
                 !.pending = TONALITY_SELECTION]

\* mutant of TonalityRoute: a valid tonality is stored but the selection
\* stays pending
TonalityRoute_StaysPending(s, userMessage) ==
  IF IncludesText(validTonalities, userMessage)
  THEN [s EXCEPT !.selectedTonality = AsToken(validTonalities, userMessage),
                 !.pending = TONALITY_SELECTION,
                 !.intent = "vibe_check",
                 !.missingProfileField = NULL]
  ELSE [s EXCEPT !.assistantReply = <<InvalidTonalityReply>>,
                 !.pending = TONALITY_SELECTION]

\* Priority 2: the state returned while a tonality selection is pending
TonalityRoute(s, userMessage) ==
  IF IncludesText(validTonalities, userMessage)
  THEN [s EXCEPT !.selectedTonality = AsToken(validTonalities, userMessage),
                 !.pending = VIBE_CHECK_IMAGE,
                 !.intent = "vibe_check",
                 !.missingProfileField = NULL]
  ELSE [s EXCEPT !.assistantReply = <<InvalidTonalityReply>>,
                 !.pending = TONALITY_SELECTION]

\* mutant of ImageRoute: a pending image intent routes without any image
ImageRoute_NoImageNeeded(s, imageCount) ==
  IF s.pending = VIBE_CHECK_IMAGE
  THEN Some([s EXCEPT !.intent = "vibe_check", !.missingProfileField = NULL])
  ELSE IF s.pending = COLOR_ANALYSIS_IMAGE
  THEN Some([s EXCEPT !.intent = "color_analysis", !.missingProfileField = NULL])
  ELSE Absent

\* mutant of ImageRoute: routing on the image consumes the pending expectation
ImageRoute_ClearsPending(s, imageCount) ==
  IF imageCount > 0 /\ s.pending = VIBE_CHECK_IMAGE
  THEN Some([s EXCEPT !.intent = "vibe_check", !.missingProfileField = NULL,
                      !.pending = NULL])
  ELSE IF imageCount > 0 /\ s.pending = COLOR_ANALYSIS_IMAGE
  THEN Some([s EXCEPT !.intent = "color_analysis", !.missingProfileField = NULL,
                      !.pending = NULL])
  ELSE Absent

\* mutant of ImageRoute: every pending value other than the vibe-check image
\* is taken for the color-analysis image
ImageRoute_ElseColor(s, imageCount) ==
  IF imageCount > 0 /\ s.pending = VIBE_CHECK_IMAGE
  THEN Some([s EXCEPT !.intent = "vibe_check", !.missingProfileField = NULL])
  ELSE IF imageCount > 0 /\ s.pending # NULL
  THEN Some([s EXCEPT !.intent = "color_analysis", !.missingProfileField = NULL])
  ELSE Absent

\* mutant of ImageRoute: routing on the image starts the vibe check afresh,
\* without the tonality chosen before
ImageRoute_DropsTonality(s, imageCount) ==
  IF imageCount > 0 /\ s.pending = VIBE_CHECK_IMAGE
  THEN Some([s EXCEPT !.intent = "vibe_check", !.missingProfileField = NULL,
                      !.selectedTonality = NULL])
  ELSE IF imageCount > 0 /\ s.pending = COLOR_ANALYSIS_IMAGE
  THEN Some([s EXCEPT !.intent = "color_analysis", !.missingProfileField = NULL])
  ELSE Absent

\* Priority 3: the state returned for a pending image intent, if any
ImageRoute(s, imageCount) ==
  IF imageCount > 0 /\ s.pending = VIBE_CHECK_IMAGE
  THEN Some([s EXCEPT !.intent = "vibe_check", !.missingProfileField = NULL])
  ELSE IF imageCount > 0 /\ s.pending = COLOR_ANALYSIS_IMAGE
  THEN Some([s EXCEPT !.intent = "color_analysis", !.missingProfileField = NULL])
  ELSE Absent

\* mutant of DirectRoute: the pending tonality selection is looked at before
\* the button payload
DirectRoute_TonalityFirst(s) ==
  IF s.pending = TONALITY_SELECTION
  THEN Some(Returned(TonalityRoute(s, UserMessage(s.input)), "tonality"))
  ELSE IF TruthyString(s.input.ButtonPayload)
  THEN Some(Returned(ButtonRoute(s, s.input.ButtonPayload[1]), "button"))
  ELSE LET routed == ImageRoute(s, numImagesInMessage(s.conversationHistoryWithImages))
       IN  IF routed # Absent THEN Some(Returned(routed[1], "image")) ELSE Absent

\* Priorities 1 to 3: the outcome when one of them decides, else Absent
DirectRoute(s) ==
  IF TruthyString(s.input.ButtonPayload)
  THEN Some(Returned(ButtonRoute(s, s.input.ButtonPayload[1]), "button"))
  ELSE IF s.pending = TONALITY_SELECTION
  THEN Some(Returned(TonalityRoute(s, UserMessage(s.input)), "tonality"))
  ELSE LET routed == ImageRoute(s, numImagesInMessage(s.conversationHistoryWithImages))
       IN  IF routed # Absent THEN Some(Returned(routed[1], "image")) ELSE Absent

\* lastAt ? Math.floor((now - lastAt) / (1000 * 60)) : -1
MinutesAgo(now, lastAt) ==
  IF TruthyNumber(lastAt)
  THEN FloorDiv(now - lastAt[1], MsPerSecond * SecondsPerMinute)
  ELSE NeverUsed

\* minutesAgo === -1 || minutesAgo >= 30
CanDo(minutesAgo) == minutesAgo = NeverUsed \/ minutesAgo >= CooldownMinutes

\* the two flags substituted into the routing prompt
CooldownFlags(user, now) ==
  [canDoVibeCheck |-> CanDo(MinutesAgo(now, user.lastVibeCheckAt)),
   canDoColorAnalysis |-> CanDo(MinutesAgo(now, user.lastColorAnalysisAt))]

\* mutant of SuppressKnownField: either known field clears whatever is missing
SuppressKnownField_AnyKnown(missingProfileField, user) ==
  IF missingProfileField # NULL
  THEN IF \/ user.inferredGender # NULL \/ user.confirmedGender # NULL
          \/ user.inferredAgeGroup # NULL \/ user.confirmedAgeGroup # NULL
       THEN NULL
       ELSE missingProfileField
  ELSE missingProfileField

\* the classifier's missingProfileField, cleared when the profile has it
SuppressKnownField(missingProfileField, user) ==
  IF missingProfileField # NULL
  THEN IF /\ missingProfileField = "gender"
          /\ (user.inferredGender # NULL \/ user.confirmedGender # NULL)
       THEN NULL
       ELSE IF /\ missingProfileField = "age_group"
               /\ (user.inferredAgeGroup # NULL \/ user.confirmedAgeGroup # NULL)
       THEN NULL
       ELSE missingProfileField
  ELSE missingProfileField

\* mutant of ClassifierState: a turn classified as a premium feature records
\* that its image is awaited
ClassifierState_SetsPending(s, response) ==
  [s EXCEPT !.intent = response.intent,
            !.missingProfileField =
               SuppressKnownField(response.missingProfileField, s.user),
            !.pending =
               IF response.intent = "vibe_check" THEN VIBE_CHECK_IMAGE
               ELSE IF response.intent = "color_analysis" THEN COLOR_ANALYSIS_IMAGE
               ELSE s.pending]

\* the state returned from the classifier's response
ClassifierState(s, response) ==
  [s EXCEPT !.intent = response.intent,
            !.missingProfileField =
               SuppressKnownField(response.missingProfileField, s.user)]

\* mutant of ClassifierRoute: a failed classifier call falls back to the
\* general intent instead of throwing
ClassifierRoute_DefaultOnFailure(s, e) ==
  LET flags == CooldownFlags(s.user, e.now)
  IN  IF e.loadPrompt = "throws"
      THEN Outcome("throw", Absent, "llm", Some(flags), 1, 0)
      ELSE IF e.llm.throws
      THEN Outcome("return", Some([s EXCEPT !.intent = "general"]), "llm", Some(flags), 1, 1)
      ELSE Outcome("return", Some(ClassifierState(s, e.llm)), "llm", Some(flags), 1, 1)

\* Priority 4: cooldown flags, prompt, classifier, post-processing; any
\* exception inside the try block is rethrown as InternalServerError.
ClassifierRoute(s, e) ==
  LET flags == CooldownFlags(s.user, e.now)
  IN  IF e.loadPrompt = "throws"
      THEN Outcome("throw", Absent, "llm", Some(flags), 1, 0)
      ELSE IF e.llm.throws
      THEN Outcome("throw", Absent, "llm", Some(flags), 1, 1)
      ELSE Outcome("return", Some(ClassifierState(s, e.llm)), "llm", Some(flags), 1, 1)

routeIntent(s, e) ==
  IF DirectRoute(s) # Absent THEN DirectRoute(s)[1] ELSE ClassifierRoute(s, e)

\* ------------------------------------------------------------ input sets

MsPerMinute == MsPerSecond * SecondsPerMinute

Pendings ==
  {NULL, TONALITY_SELECTION, VIBE_CHECK_IMAGE, COLOR_ANALYSIS_IMAGE, "ASK_USER_INFO"}

\* What earlier turns left in the session besides pending.
Carried ==
  {[intent |-> NULL, missingProfileField |-> NULL,
    selectedTonality |-> NULL, assistantReply |-> << >>],
   [intent |-> "general", missingProfileField |-> "gender",
    selectedTonality |-> NULL, assistantReply |-> << >>],
   [intent |-> "styling", missingProfileField |-> "age_group",
    selectedTonality |-> "friendly", assistantReply |-> << >>],
   [intent |-> "vibe_check", missingProfileField |-> NULL,
    selectedTonality |-> "savage", assistantReply |-> <<InvalidTonalityReply>>],
   [intent |-> "color_analysis", missingProfileField |-> "gender",
    selectedTonality |-> "hype_bff", assistantReply |-> << >>]}

SessionOf(pending, c) ==
  [pending |-> pending,
   intent |-> c.intent,
   missingProfileField |-> c.missingProfileField,
   selectedTonality |-> c.selectedTonality,
   assistantReply |-> c.assistantReply]

Sessions == {SessionOf(p, c) : p \in Pendings, c \in Carried}

FreshSession == SessionOf(NULL, [intent |-> NULL, missingProfileField |-> NULL,
                                 selectedTonality |-> NULL, assistantReply |-> << >>])

Buttons ==
  {Absent, Some("")} \cup
  {Some(b) : b \in {"styling", "occasion", "vacation", "pairing",
                    "general", "vibe_check", "color_analysis", "suggest",
                    "friendly", "savage", "hype_bff", "Savage"}}

Bodies ==
  {Absent,
   Some(<< >>),
   Some(<<" ","S","a","v","a","g","e"," ">>),
   Some(<<"h","y","p","e","_","b","f","f">>),
   Some(<<"m","a","y","b","e">>)}

Histories == {[i \in 1..n |-> "image"] : n \in 0..MaxImages}

Profiles ==
  [inferredGender : {NULL, "MALE"}, confirmedGender : {NULL, "FEMALE"},
   inferredAgeGroup : {NULL, "AGE_18_25"}, confirmedAgeGroup : {NULL, "AGE_26_35"}]

UserOf(profile, lastVibeCheckAt, lastColorAnalysisAt) ==
  [inferredGender |-> profile.inferredGender,
   confirmedGender |-> profile.confirmedGender,
   inferredAgeGroup |-> profile.inferredAgeGroup,
   confirmedAgeGroup |-> profile.confirmedAgeGroup,
   lastVibeCheckAt |-> lastVibeCheckAt,
   lastColorAnalysisAt |-> lastColorAnalysisAt]

NoProfile ==
  [inferredGender |-> NULL, confirmedGender |-> NULL,
   inferredAgeGroup |-> NULL, confirmedAgeGroup |-> NULL]

\* Instants in milliseconds since the epoch, at the minute boundaries and
\* one millisecond to either side of them.
Instants(maxMinutes) ==
  {m * MsPerMinute + o : m \in 0..maxMinutes, o \in {0, 1, MsPerMinute - 1}}

\* the call's Date.now() in Spec, and last uses inside and outside the cooldown
NowOfTurn == MaxNowMinutes * MsPerMinute

RecentUse == MaxNowMinutes * MsPerMinute - CooldownMinutes * MsPerMinute + 1

OldUse == MaxNowMinutes * MsPerMinute - CooldownMinutes * MsPerMinute

\* every profile never having used a premium feature, and the empty profile
\* with each combination of an old and a recent use
Users ==
  {UserOf(p, Absent, Absent) : p \in Profiles} \cup
  {UserOf(NoProfile, v, c) : v \in {Absent, Some(RecentUse), Some(OldUse)},
                             c \in {Absent, Some(RecentUse)}}

LLMThrows == [throws |-> TRUE, intent |-> NULL, missingProfileField |-> NULL]

LLMResponds(r) ==
  [throws |-> FALSE, intent |-> r.intent, missingProfileField |-> r.missingProfileField]

LLMResults == {LLMThrows} \cup {LLMResponds(r) : r \in LLMOutputSchema}

EnvOf(now, loadPrompt, llm) == [now |-> now, loadPrompt |-> loadPrompt, llm |-> llm]

\* the collaborators' behaviours: the prompt fails to load, or it loads and
\* the classifier throws or answers within its schema
Envs(nows) ==
  {EnvOf(n, "throws", LLMThrows) : n \in nows} \cup
  {EnvOf(n, "ok", l) : n \in nows, l \in LLMResults}

\* ---------------------------------------------------------------- actions

Init ==
  /\ pc = "idle"
  /\ session \in Sessions
  /\ state = Absent
  /\ env = Absent
  /\ out = Absent

\* A message arrives and routeIntent decides it in priority 1, 2 or 3, which
\* read none of the collaborators (the environment handed to routeIntent here
\* is never looked at).
Direct(users, buttons, bodies, histories) ==
  \E u \in users, b \in buttons, t \in bodies, h \in histories :
    LET s == GraphStateOf(session, u, [ButtonPayload |-> b, Body |-> t], h)
    IN  /\ DirectRoute(s) # Absent
        /\ state' = Some(s)
        /\ env' = Absent
        /\ out' = Some(routeIntent(s, EnvOf(0, "throws", LLMThrows)))
        /\ pc' = "returned"

\* A message arrives, no priority above 4 decides it, and the call ends with
\* the given tag: it returns the classifier's routing or it throws.
Classify(users, buttons, bodies, histories, envs, tag) ==
  \E u \in users, b \in buttons, t \in bodies, h \in histories, e \in envs :
    LET s == GraphStateOf(session, u, [ButtonPayload |-> b, Body |-> t], h)
    IN  /\ DirectRoute(s) = Absent
        /\ routeIntent(s, e).tag = tag
        /\ state' = Some(s)
        /\ env' = Some(e)
        /\ out' = Some(routeIntent(s, e))
        /\ pc' = IF tag = "return" THEN "returned" ELSE "threw"

TurnDirect ==
  /\ pc = "idle"
  /\ Direct(Users, Buttons, Bodies, Histories)
  /\ UNCHANGED session

TurnClassified ==
  /\ pc = "idle"
  /\ Classify(Users, Buttons, Bodies, Histories, Envs({NowOfTurn}), "return")
  /\ UNCHANGED session

TurnFailed ==
  /\ pc = "idle"
  /\ Classify(Users, Buttons, Bodies, Histories, Envs({NowOfTurn}), "throw")
  /\ UNCHANGED session

Next == TurnDirect \/ TurnClassified \/ TurnFailed

Spec == Init /\ [][Next]_vars

\* The cooldown of a turn that reaches the classifier, over the instants of
\* the current time and of both last uses.
InitCooldown ==
  /\ pc = "idle"
  /\ session = FreshSession
  /\ state = Absent
  /\ env = Absent
  /\ out = Absent

\* Instants are counted from an origin later than the epoch, so a recorded
\* last use is never the number 0.
LastUses == {Absent} \cup {Some(i) : i \in Instants(MaxLastMinutes) \ {0}}

CooldownUsers == {UserOf(NoProfile, v, c) : v \in LastUses, c \in LastUses}

CooldownEnvs ==
  {EnvOf(n, "ok", LLMResponds([intent |-> "vibe_check", missingProfileField |-> NULL])) :
     n \in Instants(MaxNowMinutes)}

TurnCooldown ==
  /\ pc = "idle"
  /\ Classify(CooldownUsers, {Absent}, {Some(<<"m","a","y","b","e">>)}, {<< >>},
              CooldownEnvs, "return")
  /\ UNCHANGED session

NextCooldown == TurnCooldown

SpecCooldown == InitCooldown /\ [][NextCooldown]_vars

\* Turns of one session, one after the other: the caller keeps the returned
\* session fields for the next turn, and keeps the old ones when the call threw.
InitSession ==
  /\ pc = "idle"
  /\ session \in {SessionOf(p, [intent |-> NULL, missingProfileField |-> NULL,
                                selectedTonality |-> NULL, assistantReply |-> << >>]) :
                    p \in Pendings}
  /\ state = Absent
  /\ env = Absent
  /\ out = Absent

SessionUsers ==
  {UserOf(NoProfile, Absent, Absent),
   UserOf([inferredGender |-> NULL, confirmedGender |-> "FEMALE",
           inferredAgeGroup |-> "AGE_18_25", confirmedAgeGroup |-> NULL],
          Some(RecentUse), Absent)}

SessionButtons ==
  {Absent, Some("pairing"), Some("vibe_check"), Some("hype_bff"), Some("Savage")}

SessionDirect ==
  /\ pc = "idle"
  /\ Direct(SessionUsers, SessionButtons, Bodies, Histories)
  /\ UNCHANGED session

SessionClassified ==
  /\ pc = "idle"
  /\ Classify(SessionUsers, SessionButtons, Bodies, Histories, Envs({NowOfTurn}), "return")
  /\ UNCHANGED session

SessionFailed ==
  /\ pc = "idle"
  /\ Classify(SessionUsers, SessionButtons, Bodies, Histories, Envs({NowOfTurn}), "throw")
  /\ UNCHANGED session

SessionFields(s) ==
  [pending |-> s.pending,
   intent |-> s.intent,
   missingProfileField |-> s.missingProfileField,
   selectedTonality |-> s.selectedTonality,
   assistantReply |-> s.assistantReply]

Persist ==
  /\ pc \in {"returned", "threw"}
  /\ session' = IF pc = "returned" THEN SessionFields(out[1].value[1]) ELSE session
  /\ pc' = "idle"
  /\ state' = Absent
  /\ env' = Absent
  /\ out' = Absent

NextSession == SessionDirect \/ SessionClassified \/ SessionFailed \/ Persist

SpecSession == InitSession /\ [][NextSession]_vars

\* Two turns of one user in flight at once. routeIntent takes no lock and
\* touches no store; each turn reads the session, routes on what it read and
\* writes the returned fields back. Here pc, state, env and out hold one value
\* per turn, and pc.log is the order in which the reads and writes happened.
RaceTurns == {"one", "other"}

RaceUser == UserOf(NoProfile, Absent, Absent)

RaceButtons == {Absent, Some("hype_bff")}

RaceBodies == {b \in Bodies : b # Absent /\ b[1] # << >>}

RaceEnvs ==
  {EnvOf(NowOfTurn, "ok", LLMThrows),
   EnvOf(NowOfTurn, "ok", LLMResponds([intent |-> "general", missingProfileField |-> "gender"])),
   EnvOf(NowOfTurn, "ok", LLMResponds([intent |-> "vibe_check", missingProfileField |-> NULL]))}

InitRace ==
  /\ pc = [at |-> [turn \in RaceTurns |-> "start"], log |-> << >>]
  /\ session \in {SessionOf(p, [intent |-> NULL, missingProfileField |-> NULL,
                                selectedTonality |-> NULL, assistantReply |-> << >>]) :
                    p \in Pendings}
  /\ state = [turn \in RaceTurns |-> Absent]
  /\ env = [turn \in RaceTurns |-> Absent]
  /\ out = [turn \in RaceTurns |-> Absent]

\* the turn's message arrives and the session is read into its graph state
RaceRead(turn) ==
  /\ pc.at[turn] = "start"
  /\ \E b \in RaceButtons, body \in RaceBodies, h \in Histories :
       state' = [state EXCEPT ![turn] =
                   Some(GraphStateOf(session, RaceUser,
                                     [ButtonPayload |-> b, Body |-> body], h))]
  /\ pc' = [at |-> [pc.at EXCEPT ![turn] = "read"],
            log |-> Append(pc.log, <<turn, "read">>)]
  /\ UNCHANGED <<session, env, out>>

\* routeIntent runs on what the turn read
RaceRoute(turn) ==
  /\ pc.at[turn] = "read"
  /\ \E e \in RaceEnvs :
       /\ out' = [out EXCEPT ![turn] = Some(routeIntent(state[turn][1], e))]
       /\ env' = [env EXCEPT ![turn] =
                    IF DirectRoute(state[turn][1]) # Absent THEN Absent ELSE Some(e)]
  /\ pc' = [pc EXCEPT !.at[turn] = "routed"]
  /\ UNCHANGED <<session, state>>

\* the turn's returned fields replace the session; a throw writes nothing
RaceWrite(turn) ==
  /\ pc.at[turn] = "routed"
  /\ session' = IF out[turn][1].tag = "return"
                THEN SessionFields(out[turn][1].value[1])
                ELSE session
  /\ pc' = [at |-> [pc.at EXCEPT ![turn] = "written"],
            log |-> Append(pc.log, <<turn, "write">>)]
  /\ UNCHANGED <<state, env, out>>

NextRace == \E turn \in RaceTurns : RaceRead(turn) \/ RaceRoute(turn) \/ RaceWrite(turn)

SpecRace == InitRace /\ [][NextRace]_vars

\* the call just made, for the formulas below
In == state[1]

Out == out[1]

Ret == out[1].value[1]

\* ----------------------------------------------------- what the claims read

\* the turn carries a button payload (a non-empty one: '' is no payload)
HasButton == TruthyString(In.input.ButtonPayload)

Button == In.input.ButtonPayload[1]

ImageCount == Len(In.conversationHistoryWithImages)

StylingFamily == {"styling", "occasion", "vacation", "pairing"}

Tonalities == {"friendly", "savage", "hype_bff"}

\* body is token up to letter case and surrounding whitespace, said without
\* toLowerCase and trim: whitespace, then the token's letters in either case,
\* then whitespace
IsTokenInAnyCase(chars, token) ==
  /\ Len(chars) = Len(Spell(token))
  /\ \A k \in 1..Len(chars) :
       \/ chars[k] = Spell(token)[k]
       \/ \E i \in 1..Len(LowerCase) :
            LowerCase[i] = Spell(token)[k] /\ UpperCase[i] = chars[k]

Names(body, token) ==
  /\ body # Absent
  /\ \E lead \in 0..Len(body[1]), trail \in 0..Len(body[1]) :
       /\ lead + Len(Spell(token)) + trail = Len(body[1])
       /\ \A k \in 1..lead : body[1][k] \in WhiteSpace
       /\ \A k \in (Len(body[1]) - trail + 1)..Len(body[1]) : body[1][k] \in WhiteSpace
       /\ IsTokenInAnyCase(SubSeq(body[1], lead + 1, lead + Len(Spell(token))), token)

NamesATonality == \E t \in Tonalities : Names(In.input.Body, t)

HasGender == In.user.inferredGender # NULL \/ In.user.confirmedGender # NULL

HasAgeGroup == In.user.inferredAgeGroup # NULL \/ In.user.confirmedAgeGroup # NULL

ImagePending == In.pending \in {VIBE_CHECK_IMAGE, COLOR_ANALYSIS_IMAGE}

\* ------------------------------------------------------------------ claims

\* C1: whenever routeIntent returns, the returned state has an intent and it
\* is one of general, vibe_check, color_analysis, styling.
C1_IntentInClosedSet ==
  pc = "returned" => Ret.intent \in {"general", "vibe_check", "color_analysis", "styling"}

\* C2: the first matching branch decides the turn, in the order button,
\* pending tonality, pending image, classifier: the classifier step is taken
\* if and only if there is no button payload, pending is not the tonality
\* selection and no image meets an image pending; the classifier itself is
\* then called once its prompt has loaded, and in no other turn.
C2_PriorityOrder ==
  pc # "idle" =>
    LET imageMatch == ImageCount > 0 /\ ImagePending
        fallback == ~ HasButton /\ In.pending # TONALITY_SELECTION /\ ~ imageMatch
    IN  /\ Out.branch = "button" <=> HasButton
        /\ Out.branch = "tonality" <=> (~ HasButton /\ In.pending = TONALITY_SELECTION)
        /\ Out.branch = "image" <=>
             (~ HasButton /\ In.pending # TONALITY_SELECTION /\ imageMatch)
        /\ Out.branch = "llm" <=> fallback
        /\ Out.promptLoads = (IF fallback THEN 1 ELSE 0)
        /\ Out.classifierCalls = (IF fallback /\ env[1].loadPrompt = "ok" THEN 1 ELSE 0)

C2_Witness ==
  /\ pc = "returned"
  /\ ~ HasButton
  /\ In.pending = TONALITY_SELECTION
  /\ ImageCount > 0
  /\ Out.branch = "tonality"
  /\ Out.classifierCalls = 0

\* C3: a styling-family button payload gives intent styling and a null
\* missingProfileField under every pending value, body, image count and
\* profile, and the classifier is not called.
C3_StylingButton ==
  (pc # "idle" /\ HasButton /\ Button \in StylingFamily) =>
    /\ pc = "returned"
    /\ Ret.intent = "styling"
    /\ Ret.missingProfileField = NULL
    /\ Out.promptLoads = 0
    /\ Out.classifierCalls = 0

C3_Witness ==
  /\ pc = "returned"
  /\ HasButton
  /\ Button = "vacation"
  /\ In.pending = TONALITY_SELECTION
  /\ In.missingProfileField = "gender"
  /\ ~ HasGender
  /\ ImageCount > 0
  /\ Ret.intent = "styling"

\* C4: a tonality button payload returns at once with intent vibe_check,
\* selectedTonality the payload, pending none and missingProfileField none,
\* whatever pending was, and no later branch runs.
C4_TonalityButton ==
  (pc # "idle" /\ HasButton /\ Button \in Tonalities) =>
    /\ pc = "returned"
    /\ Out.branch = "button"
    /\ Ret.intent = "vibe_check"
    /\ Ret.selectedTonality = Button
    /\ Ret.pending = NULL
    /\ Ret.missingProfileField = NULL
    /\ Ret.assistantReply = In.assistantReply
    /\ Out.promptLoads = 0
    /\ Out.classifierCalls = 0

C4_Witness ==
  /\ pc = "returned"
  /\ HasButton
  /\ Button = "hype_bff"
  /\ In.pending = COLOR_ANALYSIS_IMAGE
  /\ ImageCount > 0
  /\ In.missingProfileField = "gender"
  /\ Ret.pending = NULL
  /\ Ret.selectedTonality = "hype_bff"

\* C5: with no button payload and the tonality selection pending, a body that
\* is a tonality token up to case and surrounding whitespace records that
\* token (not the raw body), moves pending to the vibe-check image, sets
\* intent vibe_check, clears missingProfileField and adds no reply.
C5_ValidTonalityText ==
  \A t \in Tonalities :
    (pc # "idle" /\ ~ HasButton /\ In.pending = TONALITY_SELECTION
       /\ Names(In.input.Body, t)) =>
      /\ pc = "returned"
      /\ Ret.selectedTonality = t
      /\ Ret.pending = VIBE_CHECK_IMAGE
      /\ Ret.intent = "vibe_check"
      /\ Ret.missingProfileField = NULL
      /\ Ret.assistantReply = In.assistantReply

C5_Witness ==
  /\ pc = "returned"
  /\ ~ HasButton
  /\ In.pending = TONALITY_SELECTION
  /\ In.input.Body = Some(<<" ","S","a","v","a","g","e"," ">>)
  /\ In.assistantReply = << >>
  /\ Ret.selectedTonality = "savage"
  /\ Ret.pending = VIBE_CHECK_IMAGE
  /\ Ret.assistantReply = << >>

\* C6: with no button payload and the tonality selection pending, a body that
\* names no tonality (an absent or empty one included) keeps pending at the
\* tonality selection, leaves intent and selectedTonality as they were and
\* carries exactly one reply, of type text, naming Friendly, Savage and
\* Hype BFF; so over the turns of a session pending leaves the tonality
\* selection only on a valid tonality text or a tonality button.
C6_InvalidTonalityText ==
  /\ (pc # "idle" /\ ~ HasButton /\ In.pending = TONALITY_SELECTION
        /\ ~ NamesATonality) =>
       /\ pc = "returned"
       /\ Ret.pending = TONALITY_SELECTION
       /\ Ret.intent = In.intent
       /\ Ret.selectedTonality = In.selectedTonality
       /\ Len(Ret.assistantReply) = 1
       /\ Ret.assistantReply[1].reply_type = "text"
       /\ \A option \in {"Friendly", "Savage", "Hype BFF"} :
            \E k \in 1..Len(Ret.assistantReply[1].reply_text) :
              Ret.assistantReply[1].reply_text[k] = option
  /\ (pc # "idle" /\ In.pending = TONALITY_SELECTION
        /\ ~ (pc = "returned" /\ Ret.pending = TONALITY_SELECTION)) =>
       \/ HasButton /\ Button \in Tonalities
       \/ ~ HasButton /\ NamesATonality
  /\ pc # "idle" => In.pending = session.pending

\* a second invalid text in a row: the session already carries the reply of
\* an earlier invalid turn, and pending is still the tonality selection
C6_Witness ==
  /\ pc = "returned"
  /\ ~ HasButton
  /\ In.pending = TONALITY_SELECTION
  /\ In.input.Body = Absent
  /\ In.assistantReply = <<InvalidTonalityReply>>
  /\ Ret.pending = TONALITY_SELECTION
  /\ Len(Ret.assistantReply) = 1

\* C7: with no button payload and at least one image, a pending vibe-check
\* image gives vibe_check and a pending color-analysis image gives
\* color_analysis, both with a null missingProfileField and no classifier;
\* with pending none, or with no image under an image pending, the image
\* branch selects nothing and the turn goes on to the cooldown and classifier.
C7_PendingImage ==
  (pc # "idle" /\ ~ HasButton) =>
    /\ (ImageCount > 0 /\ In.pending = VIBE_CHECK_IMAGE) =>
         /\ pc = "returned"
         /\ Ret.intent = "vibe_check"
         /\ Ret.missingProfileField = NULL
         /\ Out.classifierCalls = 0
    /\ (ImageCount > 0 /\ In.pending = COLOR_ANALYSIS_IMAGE) =>
         /\ pc = "returned"
         /\ Ret.intent = "color_analysis"
         /\ Ret.missingProfileField = NULL
         /\ Out.classifierCalls = 0
    /\ (In.pending = NULL \/ (ImageCount = 0 /\ ImagePending)) =>
         /\ Out.branch = "llm"
         /\ Out.flags # Absent
         /\ Out.promptLoads = 1

C7_Witness ==
  /\ pc = "returned"
  /\ ~ HasButton
  /\ ImageCount > 0
  /\ In.pending = COLOR_ANALYSIS_IMAGE
  /\ In.intent # "color_analysis"
  /\ In.missingProfileField # NULL
  /\ Ret.intent = "color_analysis"

\* C8: each eligibility flag passed to the classifier is true exactly when no
\* last use is recorded or the whole minutes elapsed since it, by floor
\* division of the millisecond difference, are at least 30; the two flags
\* are computed independently.
C8_CooldownFlags ==
  (pc # "idle" /\ Out.branch = "llm") =>
    LET eligible(lastAt) ==
          \/ lastAt = Absent
          \/ (env[1].now - lastAt[1]) \div 60000 >= 30
    IN  /\ Out.flags[1].canDoVibeCheck = eligible(In.user.lastVibeCheckAt)
        /\ Out.flags[1].canDoColorAnalysis = eligible(In.user.lastColorAnalysisAt)

\* C9: in every returned state missingProfileField is not gender when the
\* profile has a confirmed or inferred gender, and not age_group when it has
\* a confirmed or inferred age group.
C9_NoKnownMissingField ==
  pc = "returned" =>
    /\ ~ (Ret.missingProfileField = "gender" /\ HasGender)
    /\ ~ (Ret.missingProfileField = "age_group" /\ HasAgeGroup)

\* C10: in the classifier branch the returned intent is the classifier's, and
\* the returned missingProfileField is the classifier's except that gender
\* becomes none when the profile has a gender and age_group becomes none when
\* it has an age group; neither is suppressed by the other field.
C10_ClassifierResult ==
  (pc = "returned" /\ Out.branch = "llm") =>
    /\ Ret.intent = env[1].llm.intent
    /\ Ret.missingProfileField =
         (CASE env[1].llm.missingProfileField = "gender" /\ HasGender -> NULL
            [] env[1].llm.missingProfileField = "age_group" /\ HasAgeGroup -> NULL
            [] OTHER -> env[1].llm.missingProfileField)

C10_Witness ==
  /\ pc = "returned"
  /\ Out.branch = "llm"
  /\ env[1].llm.missingProfileField = "gender"
  /\ ~ HasGender
  /\ HasAgeGroup
  /\ Ret.missingProfileField = "gender"
  /\ Ret.intent = env[1].llm.intent
  /\ Ret.intent # In.intent

\* the collaborators as this call met them (any, when it consulted none)
EnvMet == IF env = Absent THEN EnvOf(NowOfTurn, "throws", LLMThrows) ELSE env[1]

PendingKnown == In.pending \in {NULL, TONALITY_SELECTION, VIBE_CHECK_IMAGE, COLOR_ANALYSIS_IMAGE}

\* C11: when loading the prompt or the classifier call fails, routeIntent
\* returns no state and throws InternalServerError, after one attempt and
\* with no default intent; the session fields are what they were before the
\* call, so the next turn starts from the session of before the failure.
C11_ClassifierFailure ==
  /\ (pc # "idle" /\ Out.branch = "llm"
        /\ (env[1].loadPrompt = "throws" \/ env[1].llm.throws)) =>
       /\ pc = "threw"
       /\ Out.tag = "throw"
       /\ Out.error = "InternalServerError"
       /\ Out.value = Absent
       /\ Out.promptLoads = 1
       /\ Out.classifierCalls = (IF env[1].loadPrompt = "throws" THEN 0 ELSE 1)
  /\ pc = "threw" =>
       /\ Out.branch = "llm"
       /\ env[1].loadPrompt = "throws" \/ env[1].llm.throws
       /\ session = SessionFields(In)

\* the classifier throws in a session that earlier turns have written to
C11_Witness ==
  /\ pc = "threw"
  /\ env[1].loadPrompt = "ok"
  /\ env[1].llm.throws
  /\ session.intent = "styling"
  /\ session.missingProfileField = "gender"
  /\ session.pending = VIBE_CHECK_IMAGE
  /\ Out.value = Absent

\* C12: the router changes pending only from the tonality selection to the
\* vibe-check image (valid tonality text), from the tonality selection to
\* itself (invalid text) and from anything to none (tonality button); every
\* other return leaves pending as it came in, so it never clears an image
\* pending on an image, never sets the color-analysis image and never moves
\* pending out of none.
C12_PendingFrame ==
  /\ pc = "returned" =>
       /\ Ret.pending =
            (IF HasButton /\ Button \in Tonalities THEN NULL
             ELSE IF ~ HasButton /\ In.pending = TONALITY_SELECTION /\ NamesATonality
             THEN VIBE_CHECK_IMAGE
             ELSE In.pending)
       /\ Out.branch = "image" => Ret.pending = In.pending /\ Ret.pending # NULL
       /\ Ret.pending = COLOR_ANALYSIS_IMAGE => In.pending = COLOR_ANALYSIS_IMAGE
       /\ In.pending = NULL => Ret.pending = NULL
  /\ pc # "idle" => In.pending = session.pending

\* an image is routed on in a session whose earlier turns were routed too,
\* and the image pending is still there
C12_Witness ==
  /\ pc = "returned"
  /\ Out.branch = "image"
  /\ In.pending = COLOR_ANALYSIS_IMAGE
  /\ In.intent = "color_analysis"
  /\ Ret.pending = COLOR_ANALYSIS_IMAGE

\* C13: a pending value that is none of the three known ones never makes the
\* call throw and gives the branch, intent, missingProfileField and replies
\* that the same input gives with pending none.
C13_UnknownPendingAsNone ==
  (pc # "idle" /\ ~ PendingKnown) =>
    LET other == routeIntent([In EXCEPT !.pending = NULL], EnvMet)
    IN  /\ Out.tag = other.tag
        /\ Out.branch = other.branch
        /\ Out.branch \in {"button", "llm"}
        /\ pc = "threw" <=> (Out.branch = "llm" /\
                              (env[1].loadPrompt = "throws" \/ env[1].llm.throws))
        /\ pc = "returned" =>
             /\ Ret.intent = other.value[1].intent
             /\ Ret.missingProfileField = other.value[1].missingProfileField
             /\ Ret.assistantReply = other.value[1].assistantReply

C13_Witness ==
  /\ pc = "returned"
  /\ ~ PendingKnown
  /\ ~ HasButton
  /\ ImageCount > 0
  /\ NamesATonality
  /\ Out.branch = "llm"
  /\ Ret.intent = env[1].llm.intent

\* C14: for a turn with no button payload and no pending, the returned state
\* fed back in with the same turn and profile is decided by the classifier
\* again: nothing the router wrote makes the button, tonality or image
\* branch match, and each call ends after one classifier call at most.
C14_FeedbackStaysInClassifier ==
  (pc # "idle" /\ ~ HasButton /\ In.pending = NULL) =>
    /\ Out.branch = "llm"
    /\ Out.promptLoads = 1
    /\ Out.classifierCalls <= 1
    /\ pc = "returned" =>
         /\ Ret.pending = NULL
         /\ Ret.input = In.input
         /\ DirectRoute(Ret) = Absent
         /\ \A e \in Envs({NowOfTurn}) :
              /\ routeIntent(Ret, e).branch = "llm"
              /\ routeIntent(Ret, e).promptLoads = 1
              /\ routeIntent(Ret, e).classifierCalls <= 1

C14_Witness ==
  /\ pc = "returned"
  /\ ~ HasButton
  /\ In.pending = NULL
  /\ ImageCount > 0
  /\ NamesATonality
  /\ Ret.intent = "vibe_check"
  /\ Ret.missingProfileField = "gender"
  /\ DirectRoute(Ret) = Absent

\* another call decides as this one did
SameDecision(other) ==
  /\ other.tag = "return"
  /\ other.branch = Out.branch
  /\ SessionFields(other.value[1]) = SessionFields(Ret)

\* C15: a turn decided by the button, pending-tonality or pending-image
\* branch returns the same session fields whatever the current time, the
\* last-use timestamps, the profile's gender and age fields and the
\* classifier's behaviour are: every turn, whatever its profile and last-use
\* instants, decides as the same turn does for a user with no profile and no
\* premium use and for one with a profile and a recent vibe check, and as it
\* does at another time and when the prompt fails to load, the classifier
\* throws, or it answers general or vibe_check. A vibe_check or
\* color_analysis button and a pending image match select their intent
\* inside the cooldown too.
C15_DirectBranchesPure ==
  (pc # "idle" /\ Out.branch \in {"button", "tonality", "image"}) =>
    /\ pc = "returned"
    /\ env = Absent
    /\ \A u \in SessionUsers : SameDecision(routeIntent([In EXCEPT !.user = u], EnvMet))
    /\ \A e \in RaceEnvs \cup {EnvOf(0, "throws", LLMThrows)} :
         SameDecision(routeIntent(In, e))
    /\ (HasButton /\ Button \in {"vibe_check", "color_analysis"}) => Ret.intent = Button
    /\ (Out.branch = "image" /\ In.pending = VIBE_CHECK_IMAGE) => Ret.intent = "vibe_check"
    /\ (Out.branch = "image" /\ In.pending = COLOR_ANALYSIS_IMAGE) =>
         Ret.intent = "color_analysis"

\* the vibe_check button is pressed one millisecond short of 30 minutes
\* after the last vibe check
C15_Witness ==
  /\ pc = "returned"
  /\ HasButton
  /\ Button = "vibe_check"
  /\ In.user.lastVibeCheckAt = Some(RecentUse)
  /\ ~ CooldownFlags(In.user, NowOfTurn).canDoVibeCheck
  /\ Ret.intent = "vibe_check"

\* C18: a non-empty button payload ends the turn in the button branch; one
\* of no vocabulary gives intent general and a null missingProfileField and
\* leaves pending, selectedTonality and the replies alone; only an absent or
\* empty payload lets the later branches run.
C18_AnyButtonDecides ==
  /\ (pc # "idle" /\ In.input.ButtonPayload # Absent /\ In.input.ButtonPayload[1] # "") =>
       /\ pc = "returned"
       /\ Out.branch = "button"
       /\ Out.promptLoads = 0
       /\ Out.classifierCalls = 0
       /\ Button \notin (StylingFamily \cup Tonalities \cup
                         {"general", "vibe_check", "color_analysis", "suggest"}) =>
            /\ Ret.intent = "general"
            /\ Ret.missingProfileField = NULL
            /\ Ret.pending = In.pending
            /\ Ret.selectedTonality = In.selectedTonality
            /\ Ret.assistantReply = In.assistantReply
  /\ (pc # "idle" /\ Out.branch # "button") =>
       (In.input.ButtonPayload = Absent \/ In.input.ButtonPayload[1] = "")

C18_Witness ==
  /\ pc = "returned"
  /\ In.input.ButtonPayload = Some("Savage")
  /\ In.pending = TONALITY_SELECTION
  /\ NamesATonality
  /\ ImageCount > 0
  /\ In.intent = "styling"
  /\ In.missingProfileField = "age_group"
  /\ Ret.intent = "general"
  /\ Ret.pending = TONALITY_SELECTION

\* C19: with the tonality selection pending, a styling-family, other-direct
\* or unrecognised button selects the button's intent and leaves pending at
\* the tonality selection, so the next turn without a button payload is
\* decided by the tonality check (a text that names no tonality gets the
\* corrective reply) and not by the classifier.
C19_ButtonKeepsPendingTonality ==
  /\ (pc # "idle" /\ HasButton /\ Button \notin Tonalities
        /\ In.pending = TONALITY_SELECTION) =>
       /\ pc = "returned"
       /\ Ret.pending = TONALITY_SELECTION
       /\ Ret.intent =
            (IF Button \in StylingFamily THEN "styling"
             ELSE IF Button \in {"general", "vibe_check", "color_analysis", "suggest"}
             THEN Button
             ELSE "general")
  /\ (pc # "idle" /\ ~ HasButton /\ session.pending = TONALITY_SELECTION) =>
       /\ pc = "returned"
       /\ Out.branch = "tonality"
       /\ Out.classifierCalls = 0
       /\ ~ NamesATonality => Ret.assistantReply = <<InvalidTonalityReply>>
  /\ pc # "idle" => In.pending = session.pending

\* the turn after a styling-family button pressed while the tonality
\* selection was pending: a text naming no tonality gets the reply
C19_Witness ==
  /\ pc = "returned"
  /\ ~ HasButton
  /\ In.pending = TONALITY_SELECTION
  /\ In.intent = "styling"
  /\ In.assistantReply = << >>
  /\ ~ NamesATonality
  /\ Out.branch = "tonality"
  /\ Ret.assistantReply = <<InvalidTonalityReply>>

\* the tonality a text turn under the tonality selection names, if any
NamedTonality == {tone \in Tonalities : Names(In.input.Body, tone)}

\* a turn of the tonality flow: no button payload, tonality selection pending
TonalityTurn == pc # "idle" /\ ~ HasButton /\ In.pending = TONALITY_SELECTION

\* between turns the session is what the last turn returned
C17_SessionCarried ==
  (pc = "returned" /\ pc' = "idle") => session' = SessionFields(Ret)

\* the turn that brings an image while the vibe-check image is pending
C17_ImageTurn ==
  (/\ pc = "idle" /\ pc' # "idle"
   /\ session.pending = VIBE_CHECK_IMAGE
   /\ ~ HasButton'
   /\ ImageCount' > 0) =>
     /\ pc' = "returned"
     /\ Out'.branch = "image"
     /\ Out'.promptLoads = 0
     /\ Out'.classifierCalls = 0
     /\ Ret'.intent = "vibe_check"
     /\ Ret'.selectedTonality = session.selectedTonality
     /\ Ret'.pending = VIBE_CHECK_IMAGE

\* C17: in the tonality flow (no button payloads, no handler in between) a
\* text naming no tonality keeps the tonality selection pending, however
\* often it happens; a text naming tonality t stores t and awaits the image;
\* the session is carried to the next turn as returned; and the next turn,
\* if it has an image, is routed to vibe_check without the classifier, with
\* selectedTonality still t.
C17_TonalityFlow ==
  /\ [](TonalityTurn =>
          /\ pc = "returned"
          /\ Out.branch = "tonality"
          /\ NamedTonality = {} =>
               /\ Ret.pending = TONALITY_SELECTION
               /\ Ret.selectedTonality = In.selectedTonality
          /\ NamedTonality # {} =>
               /\ Ret.pending = VIBE_CHECK_IMAGE
               /\ Ret.selectedTonality \in NamedTonality)
  /\ [][C17_SessionCarried /\ C17_ImageTurn]_vars

\* the image turn of a flow that began with texts naming no tonality and
\* went on with " Savage "
C17_Witness ==
  /\ pc = "returned"
  /\ ~ HasButton
  /\ ImageCount > 0
  /\ In.pending = VIBE_CHECK_IMAGE
  /\ In.selectedTonality = "savage"
  /\ In.assistantReply = <<InvalidTonalityReply>>
  /\ In.intent = "vibe_check"
  /\ Out.branch = "image"
  /\ Out.classifierCalls = 0
  /\ Ret.selectedTonality = "savage"

\* both turns of the race have written back
RaceDone == \A turn \in RaceTurns : pc.at[turn] = "written"

RacePosition(event) == CHOOSE i \in 1..Len(pc.log) : pc.log[i] = event

\* both turns read the session before either wrote it back
RaceOverlapped ==
  \A reader \in RaceTurns, writer \in RaceTurns :
    RacePosition(<<reader, "read">>) < RacePosition(<<writer, "write">>)

\* the session before both turns, and the turn that wrote last
RaceStart == SessionFields(state[pc.log[1][1]][1])

RaceLastWriter == pc.log[Len(pc.log)][1]

\* the session after one turn, alone, has read, routed and written back
RaceApply(sess, turn, e) ==
  LET mine == state[turn][1]
      o == routeIntent(GraphStateOf(sess, mine.user, mine.input,
                                    mine.conversationHistoryWithImages), e)
  IN  IF o.tag = "return" THEN SessionFields(o.value[1]) ELSE sess

\* the sessions the two turns leave when one runs wholly after the other
RaceSerialFinals ==
  {RaceApply(RaceApply(RaceStart, order[1], e1), order[2], e2) :
     order \in {o \in RaceTurns \X RaceTurns : o[1] # o[2]},
     e1 \in RaceEnvs, e2 \in RaceEnvs}

RaceNames(turn) ==
  \E tone \in Tonalities : Names(state[turn][1].input.Body, tone)

\* the tonality selection was pending, both turns are texts, one names a
\* tonality, the other does not and writes last
RaceLostUpdateCase ==
  /\ RaceStart.pending = TONALITY_SELECTION
  /\ \A turn \in RaceTurns : ~ TruthyString(state[turn][1].input.ButtonPayload)
  /\ \E turn \in RaceTurns : RaceNames(turn)
  /\ ~ RaceNames(RaceLastWriter)

\* C16: two turns on one session, with no lock in the router. When one
\* turn's read, route and write-back come wholly before the other's, the
\* final session is one a serial order gives. When both read the pending
\* tonality selection before either writes, one text naming a tonality and
\* the other not, and the latter writes last, the final session has the
\* tonality selection still pending and the selectedTonality of before,
\* which no serial order gives: every serial order ends awaiting the image
\* with the tonality stored.
C16_SerialOrLostUpdate ==
  RaceDone =>
    /\ ~ RaceOverlapped => session \in RaceSerialFinals
    /\ (RaceOverlapped /\ RaceLostUpdateCase) =>
         /\ session.pending = TONALITY_SELECTION
         /\ session.selectedTonality = RaceStart.selectedTonality
         /\ \A final \in RaceSerialFinals :
              /\ final.pending = VIBE_CHECK_IMAGE
              /\ final.selectedTonality \in Tonalities
         /\ session \notin RaceSerialFinals

\* the lost update: " Savage " was read, routed and written back, and the
\* turn with "maybe" that had read the same session overwrote it
C16_Witness ==
  /\ RaceDone
  /\ RaceOverlapped
  /\ RaceLostUpdateCase
  /\ out["one"][1].value[1].selectedTonality = "savage"
  /\ out["one"][1].value[1].pending = VIBE_CHECK_IMAGE
  /\ RaceLastWriter = "other"
  /\ session.pending = TONALITY_SELECTION
  /\ session.selectedTonality = NULL
  /\ session \notin RaceSerialFinals

====
